---- MODULE Spec2Model ----
(***************************************************************************)
(* Model of the EIA plant pipeline: clean_data, aggregate_plants,          *)
(* merge_with_csv (src/main.py) and flag_basic_capacity_factor,            *)
(* analyze_batch_with_deepseek, enrich_with_deepseek                       *)
(* (src/deepseek_enrichment.py).                                           *)
(*                                                                         *)
(* Text that the code searches or sorts (fuel descriptions) is a sequence  *)
(* of one-character strings; labels and codes that the code only compares  *)
(* or prefixes are TLA+ strings.  Numbers that can be NaN/None are exact   *)
(* fractions [n, d] with d = 0 standing for NaN/None.                      *)
(***************************************************************************)
EXTENDS Integers, Sequences, FiniteSets, TLC

VARIABLES
    pc,              \* position of the function under analysis
    row,             \* flag_basic_capacity_factor: its argument
    flag,            \* flag_basic_capacity_factor: its return value
    raw_records,     \* get_eia_data: the records of the API response
    raw_df,          \* clean_data: the frame built from the records
    cleaned_df,      \* clean_data: the returned frame / aggregate_plants: its argument
    aggregated_df,   \* aggregate_plants: the returned frame
    api_df,          \* merge_with_csv: the aggregated frame
    csv_df,          \* merge_with_csv: the reference table read from the CSV
    merged_df,       \* merge_with_csv: the returned frame
    ai_response,     \* analyze_batch_with_deepseek: the HTTP outcome
    parsed,          \* analyze_batch_with_deepseek: the returned (flags, success)
    df,              \* enrich_with_deepseek: the loaded frame with its flag column
    analysis_data,   \* enrich_with_deepseek: the plants prepared for the AI pass
    flagged_plants,  \* enrich_with_deepseek: plant name -> flag
    i,               \* enrich_with_deepseek: loop index of the batch loop
    batch_log,       \* enrich_with_deepseek: per batch, (success and flags)
    calls,           \* enrich_with_deepseek: the batches submitted, with their results
    run,             \* main: number of the current run of the pipeline
    fetch,           \* main: how get_eia_data ended in the current run
    disk             \* the data directory: the three JSON dumps

vars == <<pc, row, flag, raw_records, raw_df, cleaned_df, aggregated_df, api_df, csv_df,
          merged_df, ai_response, parsed, df, analysis_data, flagged_plants,
          i, batch_log, calls, run, fetch, disk>>

(***************************************************************************)
(* Numbers: exact fractions; d = 0 is NaN / None.                          *)
(***************************************************************************)
NaN == [n |-> 0, d |-> 0]

isna(x) == x.d = 0

notna(x) == x.d # 0

Abs(a) == IF a < 0 THEN -a ELSE a

RECURSIVE Gcd(_, _)
Gcd(a, b) == IF b = 0 THEN a ELSE Gcd(b, a % b)

\* the fraction a/b in lowest terms with a positive denominator (b # 0)
Frac(a, b) ==
    LET g == Gcd(Abs(a), Abs(b))
        s == IF b < 0 THEN -1 ELSE 1
    IN  [n |-> s * (a \div g), d |-> s * (b \div g)]

Num(k) == [n |-> k, d |-> 1]

RatAdd(x, y) == Frac(x.n * y.d + y.n * x.d, x.d * y.d)

RatMul(x, y) == Frac(x.n * y.n, x.d * y.d)

\* x / y for y # 0
RatDiv(x, y) == Frac(x.n * y.d, x.d * y.n)

RatLt(x, y) == x.n * y.d < y.n * x.d

RatGt(x, y) == x.n * y.d > y.n * x.d

(***************************************************************************)
(* Text: sequences of one-character strings.                               *)
(***************************************************************************)
UpperCase == <<"A","B","C","D","E","F","G","H","I","J","K","L","M",
               "N","O","P","Q","R","S","T","U","V","W","X","Y","Z">>

LowerCase == <<"a","b","c","d","e","f","g","h","i","j","k","l","m",
               "n","o","p","q","r","s","t","u","v","w","x","y","z">>

\* the characters in code-point order (space, comma, A-Z, a-z)
CodePoints == <<" ", ",">> \o UpperCase \o LowerCase

Ord(c) == CHOOSE k \in 1..Len(CodePoints) : CodePoints[k] = c

LowerChar(c) ==
    IF \E k \in 1..26 : UpperCase[k] = c
    THEN LowerCase[CHOOSE k \in 1..26 : UpperCase[k] = c]
    ELSE c

\* str.lower()
Lower(s) == [k \in 1..Len(s) |-> LowerChar(s[k])]

\* Python's  sub in s
Contains(s, sub) ==
    \E off \in 0..(Len(s) - Len(sub)) :
        \A k \in 1..Len(sub) : s[off + k] = sub[k]

\* Python's  s < t  on str (code-point lexicographic)
StrLt(s, t) ==
    \E k \in 1..(Len(t)) :
        /\ \A j \in 1..(k - 1) : j <= Len(s) /\ s[j] = t[j]
        /\ \/ k = Len(s) + 1
           \/ k <= Len(s) /\ Ord(s[k]) < Ord(t[k])

\* a missing (None / NaN) text value
NoneStr == <<"None">>

\* str(x): a missing value prints as text that holds no fuel keyword
Str(s) == IF s = NoneStr THEN <<"n","a","n">> ELSE s

s_nuclear == <<"n","u","c","l","e","a","r">>
s_natural_gas == <<"n","a","t","u","r","a","l"," ","g","a","s">>
s_gas == <<"g","a","s">>
s_coal == <<"c","o","a","l">>
s_hydro == <<"h","y","d","r","o">>
s_water == <<"w","a","t","e","r">>
s_wind == <<"w","i","n","d">>
s_solar == <<"s","o","l","a","r">>
s_sun == <<"s","u","n">>

(***************************************************************************)
(* flag_basic_capacity_factor                                              *)
(***************************************************************************)
\* variant: the nuclear and fossil tests are taken in the opposite order
flag_basic_fossil_first(r) ==
    IF isna(r.capacityFactorPercent) THEN "No_Data"
    ELSE
      LET cf == r.capacityFactorPercent
          fuel_desc == Lower(Str(r.fuelTypeDescription))
      IN  IF \E fuel \in {s_natural_gas, s_gas, s_coal} : Contains(fuel_desc, fuel)
          THEN IF RatLt(cf, Num(20)) \/ RatGt(cf, Num(90))
               THEN "Unusual_Fossil" ELSE "Normal"
          ELSE IF Contains(fuel_desc, s_nuclear)
          THEN IF RatLt(cf, Num(70)) \/ RatGt(cf, Num(110))
               THEN "Unusual_Nuclear" ELSE "Normal"
          ELSE IF \E fuel \in {s_hydro, s_water} : Contains(fuel_desc, fuel)
          THEN IF RatLt(cf, Num(10)) \/ RatGt(cf, Num(80))
               THEN "Unusual_Hydro" ELSE "Normal"
          ELSE IF \E fuel \in {s_wind} : Contains(fuel_desc, fuel)
          THEN IF RatLt(cf, Num(5)) \/ RatGt(cf, Num(60))
               THEN "Unusual_Wind" ELSE "Normal"
          ELSE IF \E fuel \in {s_solar, s_sun} : Contains(fuel_desc, fuel)
          THEN IF RatLt(cf, Num(5)) \/ RatGt(cf, Num(50))
               THEN "Unusual_Solar" ELSE "Normal"
          ELSE "Normal"

\* variant: the missing-value test is left out, so every comparison with the
\* missing capacity factor is false
flag_basic_no_isna(r) ==
    LET cf == r.capacityFactorPercent
        fuel_desc == Lower(Str(r.fuelTypeDescription))
        lt(a, b) == notna(a) /\ RatLt(a, b)
        gt(a, b) == notna(a) /\ RatGt(a, b)
    IN  IF Contains(fuel_desc, s_nuclear)
        THEN IF lt(cf, Num(70)) \/ gt(cf, Num(110))
             THEN "Unusual_Nuclear" ELSE "Normal"
        ELSE IF \E fuel \in {s_natural_gas, s_gas, s_coal} : Contains(fuel_desc, fuel)
        THEN IF lt(cf, Num(20)) \/ gt(cf, Num(90))
             THEN "Unusual_Fossil" ELSE "Normal"
        ELSE IF \E fuel \in {s_hydro, s_water} : Contains(fuel_desc, fuel)
        THEN IF lt(cf, Num(10)) \/ gt(cf, Num(80))
             THEN "Unusual_Hydro" ELSE "Normal"
        ELSE IF \E fuel \in {s_wind} : Contains(fuel_desc, fuel)
        THEN IF lt(cf, Num(5)) \/ gt(cf, Num(60))
             THEN "Unusual_Wind" ELSE "Normal"
        ELSE IF \E fuel \in {s_solar, s_sun} : Contains(fuel_desc, fuel)
        THEN IF lt(cf, Num(5)) \/ gt(cf, Num(50))
             THEN "Unusual_Solar" ELSE "Normal"
        ELSE "Normal"

flag_basic_capacity_factor(r) ==
    IF isna(r.capacityFactorPercent) THEN "No_Data"
    ELSE
      LET cf == r.capacityFactorPercent
          fuel_desc == Lower(Str(r.fuelTypeDescription))
      IN  IF Contains(fuel_desc, s_nuclear)
          THEN IF RatLt(cf, Num(70)) \/ RatGt(cf, Num(110))
               THEN "Unusual_Nuclear" ELSE "Normal"
          ELSE IF \E fuel \in {s_natural_gas, s_gas, s_coal} : Contains(fuel_desc, fuel)
          THEN IF RatLt(cf, Num(20)) \/ RatGt(cf, Num(90))
               THEN "Unusual_Fossil" ELSE "Normal"
          ELSE IF \E fuel \in {s_hydro, s_water} : Contains(fuel_desc, fuel)
          THEN IF RatLt(cf, Num(10)) \/ RatGt(cf, Num(80))
               THEN "Unusual_Hydro" ELSE "Normal"
          ELSE IF \E fuel \in {s_wind} : Contains(fuel_desc, fuel)
          THEN IF RatLt(cf, Num(5)) \/ RatGt(cf, Num(60))
               THEN "Unusual_Wind" ELSE "Normal"
          ELSE IF \E fuel \in {s_solar, s_sun} : Contains(fuel_desc, fuel)
          THEN IF RatLt(cf, Num(5)) \/ RatGt(cf, Num(50))
               THEN "Unusual_Solar" ELSE "Normal"
          ELSE "Normal"

(***************************************************************************)
(* Inputs of flag_basic_capacity_factor                                    *)
(***************************************************************************)
\* largest capacity factor (percent) tried; values are taken in steps of 1/2
MaxCf == 112

BaseFuels ==
    { <<"N","u","c","l","e","a","r">>,
      <<"N","U","C","L","E","A","R">>,
      <<"N","a","t","u","r","a","l"," ","G","a","s">>,
      <<"C","o","a","l">>,
      <<"H","y","d","r","o">>,
      <<"W","a","t","e","r">>,
      <<"W","i","n","d">>,
      <<"S","o","l","a","r">>,
      <<"S","u","n">>,
      <<"O","t","h","e","r">>,
      <<"M","i","x","e","d">> }

Sep == <<",", " ">>

\* combined descriptions as aggregate_plants writes them: one fuel, or two
\* distinct fuels sorted and joined with ", "
FuelDescs ==
    BaseFuels \cup { p[1] \o Sep \o p[2] :
                        p \in { q \in BaseFuels \X BaseFuels : StrLt(q[1], q[2]) } }
              \cup { NoneStr }

CfValues == { Frac(k, 2) : k \in (-2)..(2 * MaxCf) } \cup { NaN }

\* values of the variables of the functions that are not running
NoRow == [fuelTypeDescription |-> NoneStr, capacityFactorPercent |-> NaN]

NoCsv == [loaded |-> FALSE, rows |-> <<>>]

NoResponse == [kind |-> "none", content |-> <<>>]

NoParse == [flags |-> <<>>, success |-> FALSE]

\* a file that does not exist; an existing file records the run that wrote it
NoFile == [run |-> 0, records |-> <<>>]

NoDisk == [raw |-> NoFile, merged |-> NoFile, enriched |-> NoFile]

InitFlag ==
    /\ pc = "flag_call"
    /\ row \in [fuelTypeDescription : FuelDescs, capacityFactorPercent : CfValues]
    /\ flag = ""
    /\ raw_records = <<>> /\ raw_df = <<>> /\ cleaned_df = <<>> /\ aggregated_df = <<>>
    /\ api_df = <<>> /\ csv_df = NoCsv /\ merged_df = <<>>
    /\ ai_response = NoResponse /\ parsed = NoParse
    /\ df = <<>> /\ analysis_data = <<>> /\ flagged_plants = <<>>
    /\ i = 0 /\ batch_log = <<>> /\ calls = <<>>
    /\ run = 0 /\ fetch = "" /\ disk = NoDisk

FlagBasic ==
    /\ pc = "flag_call"
    /\ flag' = flag_basic_capacity_factor(row)
    /\ pc' = "flag_done"
    /\ UNCHANGED <<row, raw_records, raw_df, cleaned_df, aggregated_df, api_df, csv_df,
                   merged_df, ai_response, parsed, df, analysis_data,
                   flagged_plants, i, batch_log,
                   calls, run, fetch, disk>>

NextFlag == FlagBasic

SpecFlag == InitFlag /\ [][NextFlag]_vars

(***************************************************************************)
(* The rule table of the deterministic classifier as the specification     *)
(* states it: categories in evaluation order, keywords, inclusive range.   *)
(***************************************************************************)
RuleTable ==
    << [category |-> "Nuclear", keywords |-> {s_nuclear},                   lo |-> 70, hi |-> 110],
       [category |-> "Fossil",  keywords |-> {s_natural_gas, s_gas, s_coal}, lo |-> 20, hi |-> 90],
       [category |-> "Hydro",   keywords |-> {s_hydro, s_water},            lo |-> 10, hi |-> 80],
       [category |-> "Wind",    keywords |-> {s_wind},                      lo |-> 5,  hi |-> 60],
       [category |-> "Solar",   keywords |-> {s_solar, s_sun},              lo |-> 5,  hi |-> 50] >>

\* kw occurs in text at some offset, letters compared without case
OccursNoCase(text, kw) ==
    \E off \in 0..(Len(text) - Len(kw)) :
        \A k \in 1..Len(kw) : LowerChar(text[off + k]) = LowerChar(kw[k])

RuleMatches(k, text) == \E kw \in RuleTable[k].keywords : OccursNoCase(text, kw)

InRange(k, cf) ==
    /\ cf.n >= RuleTable[k].lo * cf.d
    /\ cf.n <= RuleTable[k].hi * cf.d

\* C4: for a plant with a capacity factor, the flag is decided by the first
\* category (Nuclear, Fossil, Hydro, Wind, Solar) one of whose keywords occurs,
\* case-insensitively, in the fuel description: Unusual_<category> iff the
\* capacity factor is outside that category's inclusive range, else Normal;
\* later categories are not consulted, and no matching category gives Normal.
C4_FirstCategoryDecides ==
    (pc = "flag_done" /\ notna(row.capacityFactorPercent)) =>
        LET text == Str(row.fuelTypeDescription)
            cf == row.capacityFactorPercent
            hits == { k \in 1..Len(RuleTable) : RuleMatches(k, text) }
        IN  IF hits = {}
            THEN flag = "Normal"
            ELSE LET first == CHOOSE k \in hits : \A m \in hits : k <= m
                 IN  /\ (flag = "Unusual_" \o RuleTable[first].category) <=> ~InRange(first, cf)
                     /\ InRange(first, cf) => flag = "Normal"

\* a plant burning gas and nuclear fuel at 100 percent: the nuclear rule decides
\* (Normal), although the fossil range, consulted alone, would flag it
C4_Witness ==
    /\ pc = "flag_done"
    /\ row.fuelTypeDescription =
         <<"N","a","t","u","r","a","l"," ","G","a","s">> \o Sep \o <<"N","u","c","l","e","a","r">>
    /\ row.capacityFactorPercent = Num(100)
    /\ flag = "Normal"

\* C5: a plant without a capacity factor is flagged No_Data whatever its fuel.
C5_AbsentCfIsNoData ==
    (pc = "flag_done" /\ isna(row.capacityFactorPercent)) => flag = "No_Data"

C5_Witness ==
    /\ pc = "flag_done"
    /\ isna(row.capacityFactorPercent)
    /\ row.fuelTypeDescription = <<"N","u","c","l","e","a","r">>
    /\ flag = "No_Data"

(***************************************************************************)
(* clean_data                                                              *)
(***************************************************************************)
DigitChars == <<"0","1","2","3","4","5","6","7","8","9">>

IsDigit(c) == \E k \in 1..10 : DigitChars[k] = c

DigitVal(c) == (CHOOSE k \in 1..10 : DigitChars[k] = c) - 1

RECURSIVE DecimalValue(_)
DecimalValue(text) ==
    IF text = <<>> THEN 0
    ELSE 10 * DecimalValue(SubSeq(text, 1, Len(text) - 1)) + DigitVal(text[Len(text)])

\* pd.to_numeric(..., errors='coerce') on one cell: a JSON number stays, null
\* and text that is not a number become NaN, digit text becomes its value
to_numeric(cell) ==
    CASE cell.kind = "num"  -> cell.num
      [] cell.kind = "null" -> NaN
      [] cell.kind = "str"  ->
            IF cell.text # <<>> /\ \A k \in 1..Len(cell.text) : IsDigit(cell.text[k])
            THEN Num(DecimalValue(cell.text))
            ELSE NaN

all_mask(r) == r.fuel2002 = "ALL" \/ r.primeMover = "ALL"

zero_gen_mask(r) == isna(r.gross_generation) \/ r.gross_generation = Num(0)

plant_99999_mask(r) == r.plantCode = "99999"

\* variant: the placeholder plant 99999 is not filtered out
clean_data_keeps_99999(frame) ==
    IF frame = <<>> THEN frame
    ELSE LET coerced == [k \in 1..Len(frame) |->
                            [frame[k] EXCEPT !.gross_generation = to_numeric(@)]]
         IN  SelectSeq(coerced, LAMBDA r : ~all_mask(r) /\ ~zero_gen_mask(r))

clean_data(frame) ==
    IF frame = <<>> THEN frame
    ELSE LET coerced == [k \in 1..Len(frame) |->
                            [frame[k] EXCEPT !.gross_generation = to_numeric(@)]]
         IN  SelectSeq(coerced, LAMBDA r :
                 ~all_mask(r) /\ ~zero_gen_mask(r) /\ ~plant_99999_mask(r))

(***************************************************************************)
(* aggregate_plants                                                        *)
(***************************************************************************)
\* the plant codes of the model in str order (groupby sorts the group keys)
PlantCodeOrder == <<"1", "2", "99999">>

RECURSIVE SumGeneration(_)
SumGeneration(rows) ==
    IF rows = <<>> THEN Num(0)
    ELSE RatAdd(rows[1].gross_generation, SumGeneration(Tail(rows)))

\* sorted(S) for a set of texts
RECURSIVE SortedTexts(_)
SortedTexts(S) ==
    IF S = {} THEN <<>>
    ELSE LET m == CHOOSE x \in S : \A y \in S \ {x} : StrLt(x, y)
         IN  <<m>> \o SortedTexts(S \ {m})

\* ', '.join(texts)
RECURSIVE Join(_)
Join(texts) ==
    IF texts = <<>> THEN <<>>
    ELSE IF Len(texts) = 1 THEN texts[1]
    ELSE texts[1] \o Sep \o Join(Tail(texts))

\* the index order of sort_values(ascending=False): keys descending, equal
\* keys in their original order
RECURSIVE InsertDesc(_, _, _)
InsertDesc(order, k, keys) ==
    IF order = <<>> THEN <<k>>
    ELSE IF RatLt(keys[order[Len(order)]], keys[k])
         THEN InsertDesc(SubSeq(order, 1, Len(order) - 1), k, keys) \o <<order[Len(order)]>>
         ELSE order \o <<k>>

RECURSIVE ArgSortDesc(_, _)
ArgSortDesc(keys, upto) ==
    IF upto = 0 THEN <<>>
    ELSE InsertDesc(ArgSortDesc(keys, upto - 1), upto, keys)

sort_values_desc(recs, keys) ==
    LET order == ArgSortDesc(keys, Len(recs))
    IN  [k \in 1..Len(recs) |-> recs[order[k]]]

agg_record(group, total_generation) ==
    LET plant_info == group[1]
        fuel_types == { group[k].fuelTypeDescription : k \in 1..Len(group) } \ { NoneStr }
        combined_fuel_desc ==
            IF fuel_types # {} THEN Join(SortedTexts(fuel_types))
            ELSE <<"M","i","x","e","d">>
        fuel_breakdown ==
            [k \in 1..Len(group) |->
                [fuel2002 |-> group[k].fuel2002,
                 fuelTypeDescription |-> group[k].fuelTypeDescription,
                 primeMover |-> group[k].primeMover,
                 generation |-> group[k].gross_generation]]
    IN  [period |-> plant_info.period,
         plantCode |-> plant_info.plantCode,
         plantName |-> plant_info.plantName,
         state |-> plant_info.state,
         stateDescription |-> plant_info.stateDescription,
         fuelTypeDescription |-> combined_fuel_desc,
         gross_generation |-> total_generation,
         gross_generation_units |-> plant_info.gross_generation_units,
         fuelTypes |-> fuel_breakdown]

\* variant: the total is taken from the representative first row only
aggregate_plants_first_row_total(frame) ==
    IF frame = <<>> THEN frame
    ELSE LET keys == SelectSeq(PlantCodeOrder,
                         LAMBDA c : \E k \in 1..Len(frame) : frame[k].plantCode = c)
             group(c) == SelectSeq(frame, LAMBDA r : r.plantCode = c)
             aggregated_data ==
                 [g \in 1..Len(keys) |->
                     agg_record(group(keys[g]), group(keys[g])[1].gross_generation)]
         IN  sort_values_desc(aggregated_data,
                 [g \in 1..Len(keys) |-> aggregated_data[g].gross_generation])

aggregate_plants(frame) ==
    IF frame = <<>> THEN frame
    ELSE LET keys == SelectSeq(PlantCodeOrder,
                         LAMBDA c : \E k \in 1..Len(frame) : frame[k].plantCode = c)
             group(c) == SelectSeq(frame, LAMBDA r : r.plantCode = c)
             aggregated_data ==
                 [g \in 1..Len(keys) |->
                     agg_record(group(keys[g]), SumGeneration(group(keys[g])))]
         IN  sort_values_desc(aggregated_data,
                 [g \in 1..Len(keys) |-> aggregated_data[g].gross_generation])

(***************************************************************************)
(* clean_data applied to the frame of an API response                      *)
(***************************************************************************)
\* largest number of raw rows in a response
MaxRawRows == 2

SeqsUpTo(S, n) == UNION { [1..k -> S] : k \in 0..n }

NumCell(k) == [kind |-> "num", num |-> Num(k), text |-> <<>>]

StrCell(t) == [kind |-> "str", num |-> NaN, text |-> t]

NullCell == [kind |-> "null", num |-> NaN, text |-> <<>>]

RawCells ==
    { NumCell(0), NumCell(100), StrCell(<<"2","0","0">>), StrCell(<<"0">>),
      StrCell(<<"a","b","c">>), NullCell }

PlantNameOf(code) ==
    CASE code = "1" -> "Plant A" [] code = "2" -> "Plant B" [] OTHER -> "State-Fuel Level Increment"

RawRows ==
    { [period |-> "2025-02", plantCode |-> c, plantName |-> PlantNameOf(c),
       fuel2002 |-> f, fuelTypeDescription |-> <<"N","a","t","u","r","a","l"," ","G","a","s">>,
       state |-> "TX", stateDescription |-> "Texas", primeMover |-> m,
       gross_generation |-> g, gross_generation_units |-> "megawatthours"] :
         c \in {"1", "99999"}, f \in {"NG", "ALL"}, m \in {"CT", "ALL"}, g \in RawCells }

InitClean ==
    /\ pc = "clean_call"
    /\ raw_records \in SeqsUpTo(RawRows, MaxRawRows)
    /\ raw_df = raw_records
    /\ cleaned_df = <<>> /\ aggregated_df = <<>>
    /\ row = NoRow /\ flag = ""
    /\ api_df = <<>> /\ csv_df = NoCsv /\ merged_df = <<>>
    /\ ai_response = NoResponse /\ parsed = NoParse
    /\ df = <<>> /\ analysis_data = <<>> /\ flagged_plants = <<>>
    /\ i = 0 /\ batch_log = <<>> /\ calls = <<>>
    /\ run = 0 /\ fetch = "" /\ disk = NoDisk

\* clean_data(df): the generation column of the caller's frame is coerced in
\* place, the filtered copy is returned
CleanData ==
    /\ pc = "clean_call"
    /\ raw_df' = [k \in 1..Len(raw_df) |->
                     [raw_df[k] EXCEPT !.gross_generation = to_numeric(@)]]
    /\ cleaned_df' = clean_data(raw_df)
    /\ pc' = "clean_done"
    /\ UNCHANGED <<row, flag, raw_records, aggregated_df, api_df, csv_df,
                   merged_df, ai_response, parsed, df, analysis_data,
                   flagged_plants, i, batch_log,
                   calls, run, fetch, disk>>

NextClean == CleanData

SpecClean == InitClean /\ [][NextClean]_vars

\* the generation cell holds a number: a JSON number or decimal digit text
GenerationPresent(cell) ==
    \/ cell.kind = "num" /\ notna(cell.num)
    \/ /\ cell.kind = "str"
       /\ Len(cell.text) > 0
       /\ \A k \in 1..Len(cell.text) : cell.text[k] \in {"0","1","2","3","4","5","6","7","8","9"}

KeepConditions(r) ==
    /\ r.fuel2002 # "ALL"
    /\ r.primeMover # "ALL"
    /\ GenerationPresent(r.gross_generation)
    /\ to_numeric(r.gross_generation) # Num(0)
    /\ r.plantCode # "99999"

\* C6: clean_data keeps exactly the rows that meet every keep condition (fuel
\* code and prime mover not ALL, generation present and not zero, plant code
\* not 99999), in their original relative order, changed only by the numeric
\* coercion of the generation volume.
C6_CleanKeepsExactly ==
    pc = "clean_done" =>
        LET kept == { k \in 1..Len(raw_records) : KeepConditions(raw_records[k]) }
            nth(j) == CHOOSE k \in kept : Cardinality({ m \in kept : m <= k }) = j
        IN  /\ Len(cleaned_df) = Cardinality(kept)
            /\ \A j \in 1..Len(cleaned_df) :
                 /\ cleaned_df[j].gross_generation = to_numeric(raw_records[nth(j)].gross_generation)
                 /\ [cleaned_df[j] EXCEPT !.gross_generation = NaN]
                      = [raw_records[nth(j)] EXCEPT !.gross_generation = NaN]

\* two rows kept in order (text "200" first, number 100 second)
C6_Witness ==
    /\ pc = "clean_done"
    /\ Len(raw_records) = 2
    /\ raw_records[1].gross_generation = StrCell(<<"2","0","0">>)
    /\ raw_records[2].gross_generation = NumCell(100)
    /\ Len(cleaned_df) = 2
    /\ cleaned_df[1].gross_generation = Num(200)
    /\ cleaned_df[2].gross_generation = Num(100)

(***************************************************************************)
(* aggregate_plants applied to a cleaned frame                             *)
(***************************************************************************)
\* largest number of cleaned rows
MaxCleanRows == 3

FuelCodes ==
    { [code |-> "NG",  desc |-> <<"N","a","t","u","r","a","l"," ","G","a","s">>],
      [code |-> "NUC", desc |-> <<"N","u","c","l","e","a","r">>],
      [code |-> "OTH", desc |-> NoneStr] }

CleanRows ==
    { [period |-> "2025-02", plantCode |-> c, plantName |-> PlantNameOf(c),
       fuel2002 |-> f.code, fuelTypeDescription |-> f.desc,
       state |-> "TX", stateDescription |-> "Texas", primeMover |-> "CT",
       gross_generation |-> Num(g), gross_generation_units |-> "megawatthours"] :
         c \in {"1", "2"}, f \in FuelCodes, g \in {100, 200} }

InitAgg ==
    /\ pc = "agg_call"
    /\ cleaned_df \in SeqsUpTo(CleanRows, MaxCleanRows)
    /\ aggregated_df = <<>>
    /\ raw_records = <<>> /\ raw_df = <<>>
    /\ row = NoRow /\ flag = ""
    /\ api_df = <<>> /\ csv_df = NoCsv /\ merged_df = <<>>
    /\ ai_response = NoResponse /\ parsed = NoParse
    /\ df = <<>> /\ analysis_data = <<>> /\ flagged_plants = <<>>
    /\ i = 0 /\ batch_log = <<>> /\ calls = <<>>
    /\ run = 0 /\ fetch = "" /\ disk = NoDisk

AggregatePlants ==
    /\ pc = "agg_call"
    /\ aggregated_df' = aggregate_plants(cleaned_df)
    /\ pc' = "agg_done"
    /\ UNCHANGED <<row, flag, raw_records, raw_df, cleaned_df, api_df, csv_df,
                   merged_df, ai_response, parsed, df, analysis_data,
                   flagged_plants, i, batch_log,
                   calls, run, fetch, disk>>

NextAgg == AggregatePlants

SpecAgg == InitAgg /\ [][NextAgg]_vars

RECURSIVE BreakdownTotal(_)
BreakdownTotal(entries) ==
    IF entries = <<>> THEN 0
    ELSE entries[Len(entries)].generation.n
           + BreakdownTotal(SubSeq(entries, 1, Len(entries) - 1))

\* C7: one record per distinct plant code of the cleaned rows and no other;
\* each record's total generation is the sum of its breakdown entries, and
\* the breakdown has one entry per cleaned row of the plant, in row order.
C7_OneRecordPerPlant ==
    pc = "agg_done" =>
        LET codes == { cleaned_df[k].plantCode : k \in 1..Len(cleaned_df) }
        IN  /\ \A c \in codes :
                 Cardinality({ k \in 1..Len(aggregated_df) : aggregated_df[k].plantCode = c }) = 1
            /\ Len(aggregated_df) = Cardinality(codes)
            /\ \A k \in 1..Len(aggregated_df) :
                 LET rec == aggregated_df[k]
                     mine == { m \in 1..Len(cleaned_df) : cleaned_df[m].plantCode = rec.plantCode }
                     nth(j) == CHOOSE m \in mine : Cardinality({ x \in mine : x <= m }) = j
                 IN  /\ rec.gross_generation = Num(BreakdownTotal(rec.fuelTypes))
                     /\ Len(rec.fuelTypes) = Cardinality(mine)
                     /\ \A j \in 1..Len(rec.fuelTypes) :
                          /\ rec.fuelTypes[j].fuel2002 = cleaned_df[nth(j)].fuel2002
                          /\ rec.fuelTypes[j].fuelTypeDescription = cleaned_df[nth(j)].fuelTypeDescription
                          /\ rec.fuelTypes[j].primeMover = cleaned_df[nth(j)].primeMover
                          /\ rec.fuelTypes[j].generation = cleaned_df[nth(j)].gross_generation

\* plant 1 with rows of 100 and 200 (a row of plant 2 between them): total 300,
\* two breakdown entries in row order
C7_Witness ==
    /\ pc = "agg_done"
    /\ Len(cleaned_df) = 3
    /\ cleaned_df[1].plantCode = "1" /\ cleaned_df[1].gross_generation = Num(100)
    /\ cleaned_df[2].plantCode = "2"
    /\ cleaned_df[3].plantCode = "1" /\ cleaned_df[3].gross_generation = Num(200)
    /\ \E k \in 1..Len(aggregated_df) :
         /\ aggregated_df[k].plantCode = "1"
         /\ aggregated_df[k].gross_generation = Num(300)
         /\ Len(aggregated_df[k].fuelTypes) = 2
         /\ aggregated_df[k].fuelTypes[1].generation = Num(100)
         /\ aggregated_df[k].fuelTypes[2].generation = Num(200)

(***************************************************************************)
(* merge_with_csv                                                          *)
(***************************************************************************)
\* a missing (None / NaN) label or name
NULL == "<null>"

capacity_columns ==
    << "Bat_MW", "Bio_MW", "Coal_MW", "Geo_MW", "Hydro_MW", "HydroPS_MW",
       "NG_MW", "Nuclear_MW", "Crude_MW", "Solar_MW", "Wind_MW", "Other_MW" >>

CapacityColumnSet == { capacity_columns[k] : k \in 1..Len(capacity_columns) }

\* str(Plant_Code) for the integer plant codes of the reference table
StrOfCode(k) == CASE k = 1 -> "1" [] k = 2 -> "2" [] k = 3 -> "3" [] OTHER -> "?"

\* the reference columns of a left-joined row that found no reference row
NullRef ==
    [Plant_Code |-> 0, Plant_Name |-> NULL, Utility_Name |-> NULL,
     Street_Address |-> NULL, City |-> NULL, Zip |-> NULL,
     Longitude |-> NullCell, Latitude |-> NullCell, Total_MW |-> NullCell,
     caps |-> [c \in CapacityColumnSet |-> NullCell],
     PrimSource |-> NULL, source_desc |-> NULL, tech_desc |-> NULL,
     sector_name |-> NULL]

\* pd.notna on a cell of the reference table
cell_notna(cell) == cell.kind # "null"

\* float(cell) raises ValueError on text that is not a number
float_raises(cell) == cell.kind = "str" /\ isna(to_numeric(cell))

float_of(cell) == to_numeric(cell)

\* pd.merge(api_df, csv_df, left_on='plantCode', right_on='Plant_Code',
\* how='left'): the left rows in order, each once per matching right row, or
\* once with missing reference columns when no right row matches
RECURSIVE left_merge(_, _)
left_merge(left, right) ==
    IF left = <<>> THEN <<>>
    ELSE LET a == left[1]
             matches == SelectSeq(right, LAMBDA r : StrOfCode(r.Plant_Code) = a.plantCode)
             joined == IF matches = <<>>
                       THEN << [api |-> a, ref |-> NullRef] >>
                       ELSE [k \in 1..Len(matches) |-> [api |-> a, ref |-> matches[k]]]
         IN  joined \o left_merge(Tail(left), right)

\* ', '.join(address_parts), or None when there is no part; the joined frame
\* has no State_y column, so that part is never present
RECURSIVE join_parts(_)
join_parts(parts) ==
    IF Len(parts) = 1 THEN parts[1]
    ELSE parts[1] \o ", " \o join_parts(Tail(parts))

address_of(ref) ==
    LET address_parts ==
            (IF ref.Street_Address # NULL THEN <<ref.Street_Address>> ELSE <<>>)
         \o (IF ref.City # NULL THEN <<ref.City>> ELSE <<>>)
         \o (IF ref.Zip # NULL THEN <<ref.Zip>> ELSE <<>>)
    IN  IF address_parts # <<>> THEN join_parts(address_parts) ELSE NULL

capacity_dict_of(ref) ==
    LET present == { c \in CapacityColumnSet :
                       cell_notna(ref.caps[c]) /\ RatGt(float_of(ref.caps[c]), Num(0)) }
    IN  [c \in present |-> float_of(ref.caps[c])]

\* variant: the reporting period is taken as 30 days
capacity_factor_30_days(total_mw, generation) ==
    IF cell_notna(total_mw) /\ notna(generation) /\ RatGt(float_of(total_mw), Num(0))
    THEN LET capacity_mw == float_of(total_mw)
             generation_mwh == generation
             max_possible_generation == RatMul(RatMul(capacity_mw, Num(24)), Num(30))
         IN  RatMul(RatDiv(generation_mwh, max_possible_generation), Num(100))
    ELSE NaN

capacity_factor_of(total_mw, generation) ==
    IF cell_notna(total_mw) /\ notna(generation) /\ RatGt(float_of(total_mw), Num(0))
    THEN LET capacity_mw == float_of(total_mw)
             generation_mwh == generation
             max_possible_generation == RatMul(RatMul(capacity_mw, Num(24)), Num(28))
         IN  RatMul(RatDiv(generation_mwh, max_possible_generation), Num(100))
    ELSE NaN

\* variant: a plant without reference data gets no data-source tag
data_source_untagged(ref) ==
    IF ref.Plant_Name # NULL THEN "API_CSV_Merged" ELSE NULL

data_source_of(ref) ==
    IF ref.Plant_Name # NULL THEN "API_CSV_Merged" ELSE "API_Only"

final_record(j) ==
    LET a == j.api
        ref == j.ref
    IN  [plantCode |-> a.plantCode,
         plantName |-> IF ref.Plant_Name # NULL THEN ref.Plant_Name ELSE a.plantName,
         utilityName |-> ref.Utility_Name,
         address |-> address_of(ref),
         longitude |-> IF cell_notna(ref.Longitude) THEN float_of(ref.Longitude) ELSE NaN,
         latitude |-> IF cell_notna(ref.Latitude) THEN float_of(ref.Latitude) ELSE NaN,
         state |-> a.state,
         stateDescription |-> a.stateDescription,
         period |-> a.period,
         grossGeneration |-> a.gross_generation,
         grossGenerationUnits |-> a.gross_generation_units,
         fuelTypeDescription |-> a.fuelTypeDescription,
         fuelTypes |-> a.fuelTypes,
         totalCapacityMW |-> IF cell_notna(ref.Total_MW) THEN float_of(ref.Total_MW) ELSE NaN,
         capacityByType |-> capacity_dict_of(ref),
         capacityFactorPercent |-> capacity_factor_of(ref.Total_MW, a.gross_generation),
         primarySource |-> ref.PrimSource,
         sourceDescription |-> ref.source_desc,
         techDescription |-> ref.tech_desc,
         sectorName |-> ref.sector_name,
         dataSource |-> data_source_of(ref)]

\* building the record of a joined row raises when float() meets text that is
\* not a number
record_raises(j) ==
    \/ \E c \in CapacityColumnSet : float_raises(j.ref.caps[c])
    \/ float_raises(j.ref.Total_MW)
    \/ float_raises(j.ref.Longitude)
    \/ float_raises(j.ref.Latitude)

\* every exception (CSV not found or unreadable, float() of bad text, sorting
\* an empty frame by a missing column) is caught and api_df is returned
merge_with_csv(api, csv) ==
    IF ~csv.loaded THEN api
    ELSE LET merged == left_merge(api, csv.rows)
         IN  IF \E k \in 1..Len(merged) : record_raises(merged[k]) THEN api
             ELSE IF merged = <<>> THEN api
             ELSE LET final_data == [k \in 1..Len(merged) |-> final_record(merged[k])]
                  IN  sort_values_desc(final_data,
                          [k \in 1..Len(final_data) |-> final_data[k].grossGeneration])

(***************************************************************************)
(* merge_with_csv applied to an aggregated frame and a reference table     *)
(***************************************************************************)
\* largest number of rows of the reference table
MaxCsvRows == 2

\* largest number of cleaned rows behind the aggregated frame
MaxMergeRows == 2

RefRows ==
    { [Plant_Code |-> c, Plant_Name |-> n, Utility_Name |-> "City Utility",
       Street_Address |-> NULL, City |-> "Austin", Zip |-> "78701",
       Longitude |-> NumCell(-97), Latitude |-> NumCell(30), Total_MW |-> t,
       caps |-> [col \in CapacityColumnSet |->
                    IF col = "NG_MW" THEN t
                    ELSE IF col = "Solar_MW" THEN NumCell(0) ELSE NullCell],
       PrimSource |-> "natural gas", source_desc |-> "Natural Gas = 100 MW",
       tech_desc |-> "Natural Gas Fired Combustion Turbine",
       sector_name |-> "Electric Utility"] :
         c \in {1, 3}, n \in {"Reference Plant", NULL},
         t \in { NullCell, NumCell(0), NumCell(-50), NumCell(100), StrCell(<<"a","b","c">>) } }

MergeCleanRows ==
    { [period |-> "2025-02", plantCode |-> c, plantName |-> PlantNameOf(c),
       fuel2002 |-> "NG", fuelTypeDescription |-> <<"N","a","t","u","r","a","l"," ","G","a","s">>,
       state |-> "TX", stateDescription |-> "Texas", primeMover |-> "CT",
       gross_generation |-> Num(g), gross_generation_units |-> "megawatthours"] :
         c \in {"1", "2"}, g \in {100, 33600} }

AggregatedFrames == { aggregate_plants(c) : c \in SeqsUpTo(MergeCleanRows, MaxMergeRows) }

InitMerge ==
    /\ pc = "merge_call"
    /\ api_df \in AggregatedFrames
    /\ \/ csv_df = NoCsv
       \/ csv_df \in [loaded : {TRUE}, rows : SeqsUpTo(RefRows, MaxCsvRows)]
    /\ merged_df = <<>>
    /\ raw_records = <<>> /\ raw_df = <<>> /\ cleaned_df = <<>> /\ aggregated_df = <<>>
    /\ row = NoRow /\ flag = ""
    /\ ai_response = NoResponse /\ parsed = NoParse
    /\ df = <<>> /\ analysis_data = <<>> /\ flagged_plants = <<>>
    /\ i = 0 /\ batch_log = <<>> /\ calls = <<>>
    /\ run = 0 /\ fetch = "" /\ disk = NoDisk

MergeWithCsv ==
    /\ pc = "merge_call"
    /\ merged_df' = merge_with_csv(api_df, csv_df)
    /\ pc' = "merge_done"
    /\ UNCHANGED <<row, flag, raw_records, raw_df, cleaned_df, aggregated_df,
                   api_df, csv_df, ai_response, parsed, df, analysis_data,
                   flagged_plants, i, batch_log,
                   calls, run, fetch, disk>>

NextMerge == MergeWithCsv

SpecMerge == InitMerge /\ [][NextMerge]_vars

\* the record went through the enrichment loop (it has the enriched fields)
Enriched(rec) == "dataSource" \in DOMAIN rec

RefCodes == { StrOfCode(csv_df.rows[k].Plant_Code) : k \in 1..Len(csv_df.rows) }

\* C3: the output of merge_with_csv holds every aggregated record exactly
\* once and nothing else, whatever the reference table holds for its plant.
C3_EveryRecordExactlyOnce ==
    pc = "merge_done" =>
        /\ Len(merged_df) = Len(api_df)
        /\ \A k \in 1..Len(api_df) :
             Cardinality({ m \in 1..Len(merged_df) :
                             merged_df[m].plantCode = api_df[k].plantCode }) = 1

\* C8: in every enriched record the capacity factor is present iff the total
\* capacity is present and above zero and the generation is present, and then
\* capacityFactor * (capacity * 24 * 28) = generation * 100.
C8_CapacityFactor ==
    pc = "merge_done" =>
        \A k \in 1..Len(merged_df) :
            Enriched(merged_df[k]) =>
                LET rec == merged_df[k]
                    cf == rec.capacityFactorPercent
                    cap == rec.totalCapacityMW
                    gen == rec.grossGeneration
                IN  /\ notna(cf) <=> (notna(cap) /\ cap.n > 0 /\ notna(gen))
                    /\ notna(cf) =>
                         cf.n * (cap.n * 24 * 28) * gen.d = gen.n * 100 * cf.d * cap.d

\* 100 MW and 33600 MWh give exactly 50 percent
C8_Witness ==
    /\ pc = "merge_done"
    /\ \E k \in 1..Len(merged_df) :
         /\ Enriched(merged_df[k])
         /\ merged_df[k].totalCapacityMW = Num(100)
         /\ merged_df[k].grossGeneration = Num(33600)
         /\ merged_df[k].capacityFactorPercent = Num(50)

\* what C9 says of one output record of a plant without a reference row
UnmatchedRecordOk(rec) ==
    /\ Enriched(rec)
    /\ rec.dataSource = "API_Only"
    /\ rec.utilityName = NULL /\ rec.address = NULL
    /\ isna(rec.longitude) /\ isna(rec.latitude) /\ isna(rec.totalCapacityMW)
    /\ rec.primarySource = NULL /\ rec.sourceDescription = NULL
    /\ rec.techDescription = NULL /\ rec.sectorName = NULL
    /\ DOMAIN rec.capacityByType = {}
    /\ \E k \in 1..Len(api_df) :
         LET a == api_df[k]
         IN  /\ rec.plantCode = a.plantCode /\ rec.plantName = a.plantName
             /\ rec.state = a.state /\ rec.stateDescription = a.stateDescription
             /\ rec.period = a.period /\ rec.grossGeneration = a.gross_generation
             /\ rec.grossGenerationUnits = a.gross_generation_units
             /\ rec.fuelTypeDescription = a.fuelTypeDescription
             /\ rec.fuelTypes = a.fuelTypes

\* per plant, as many records tagged API_CSV_Merged as joined reference rows
\* with a plant name
MergedTagIffName ==
    \A k \in 1..Len(api_df) :
        Cardinality({ m \in 1..Len(merged_df) :
                        /\ merged_df[m].plantCode = api_df[k].plantCode
                        /\ Enriched(merged_df[m])
                        /\ merged_df[m].dataSource = "API_CSV_Merged" })
          = Cardinality({ r \in 1..Len(csv_df.rows) :
                            /\ StrOfCode(csv_df.rows[r].Plant_Code) = api_df[k].plantCode
                            /\ csv_df.rows[r].Plant_Name # NULL })

RefCellBad(cell) ==
    /\ cell.kind = "str"
    /\ \E k \in 1..Len(cell.text) : cell.text[k] \notin {"0","1","2","3","4","5","6","7","8","9"}

JoinFails ==
    \/ ~csv_df.loaded
    \/ \E k \in 1..Len(api_df), r \in 1..Len(csv_df.rows) :
         /\ StrOfCode(csv_df.rows[r].Plant_Code) = api_df[k].plantCode
         /\ \/ RefCellBad(csv_df.rows[r].Total_MW)
            \/ RefCellBad(csv_df.rows[r].Longitude)
            \/ RefCellBad(csv_df.rows[r].Latitude)
            \/ \E c \in CapacityColumnSet : RefCellBad(csv_df.rows[r].caps[c])

LBrace == [t |-> "{", k |-> "", v |-> ""]

RBrace == [t |-> "}", k |-> "", v |-> ""]

Comma == [t |-> ",", k |-> "", v |-> ""]

Noise == [t |-> "text", k |-> "", v |-> ""]

Pair(name, label) == [t |-> "pair", k |-> name, v |-> label]

EmptyDict == [k \in {} |-> ""]

\* dict.update
dict_update(old, new) ==
    [k \in DOMAIN old \cup DOMAIN new |-> IF k \in DOMAIN new THEN new[k] ELSE old[k]]

\* re.search(r'\{.*\}', text, re.DOTALL): from the first opening brace to the
\* last closing brace after it; no match when there is none
regex_match(text) ==
    LET opens == { a \in 1..Len(text) : text[a] = LBrace }
    IN  IF opens = {} THEN <<>>
        ELSE LET first == CHOOSE a \in opens : \A b \in opens : a <= b
                 closes == { b \in (first + 1)..Len(text) : text[b] = RBrace }
             IN  IF closes = {} THEN <<>>
                 ELSE SubSeq(text, first, CHOOSE b \in closes : \A c \in closes : c <= b)

\* json.loads on a span that starts with an opening brace: the members after
\* position k, read left to right; ok is FALSE on a JSONDecodeError
RECURSIVE json_members(_, _, _)
json_members(span, k, acc) ==
    IF k > Len(span) \/ span[k].t # "pair" THEN [ok |-> FALSE, flags |-> EmptyDict]
    ELSE LET acc2 == dict_update(acc, [n \in {span[k].k} |-> span[k].v])
         IN  IF k + 1 = Len(span) /\ span[k + 1] = RBrace
             THEN [ok |-> TRUE, flags |-> acc2]
             ELSE IF k + 1 < Len(span) /\ span[k + 1] = Comma
             THEN json_members(span, k + 2, acc2)
             ELSE [ok |-> FALSE, flags |-> EmptyDict]

json_loads(span) ==
    IF Len(span) = 2 /\ span[2] = RBrace THEN [ok |-> TRUE, flags |-> EmptyDict]
    ELSE json_members(span, 2, EmptyDict)

\* kind "exception": the request, response.json() or the choices lookup raised;
\* kind "http_500": a status other than 200; kind "http_200": content is the
\* message text
analyze_batch_with_deepseek(response) ==
    IF response.kind = "exception" THEN [flags |-> EmptyDict, success |-> FALSE]
    ELSE IF response.kind = "http_200"
    THEN LET json_match == regex_match(response.content)
         IN  IF json_match # <<>>
             THEN LET loaded == json_loads(json_match)
                  IN  IF loaded.ok THEN [flags |-> loaded.flags, success |-> TRUE]
                      ELSE [flags |-> EmptyDict, success |-> FALSE]
             ELSE [flags |-> EmptyDict, success |-> FALSE]
    ELSE [flags |-> EmptyDict, success |-> FALSE]

(***************************************************************************)
(* analyze_batch_with_deepseek applied to a response                       *)
(***************************************************************************)
\* largest number of tokens in a response text
MaxTextLen == 5

Tokens ==
    { LBrace, RBrace, Comma, Noise,
      Pair("Plant A", "High_Nuclear"), Pair("Plant B", "Normal") }

InitParse ==
    /\ pc = "analyze_call"
    /\ \/ ai_response \in [kind : {"http_200"}, content : SeqsUpTo(Tokens, MaxTextLen)]
       \/ ai_response \in [kind : {"exception", "http_500"}, content : {<<>>}]
    /\ parsed = NoParse
    /\ raw_records = <<>> /\ raw_df = <<>> /\ cleaned_df = <<>> /\ aggregated_df = <<>>
    /\ api_df = <<>> /\ csv_df = NoCsv /\ merged_df = <<>>
    /\ row = NoRow /\ flag = ""
    /\ df = <<>> /\ analysis_data = <<>> /\ flagged_plants = <<>>
    /\ i = 0 /\ batch_log = <<>> /\ calls = <<>>
    /\ run = 0 /\ fetch = "" /\ disk = NoDisk

AnalyzeBatch ==
    /\ pc = "analyze_call"
    /\ parsed' = analyze_batch_with_deepseek(ai_response)
    /\ pc' = "analyze_done"
    /\ UNCHANGED <<row, flag, raw_records, raw_df, cleaned_df, aggregated_df,
                   api_df, csv_df, merged_df, ai_response, df, analysis_data,
                   flagged_plants, i, batch_log,
                   calls, run, fetch, disk>>

NextParse == AnalyzeBatch

SpecParse == InitParse /\ [][NextParse]_vars

\* braces opened minus braces closed in text[a..m]
BraceDepth(text, a, m) ==
    Cardinality({ x \in a..m : text[x] = LBrace }) - Cardinality({ x \in a..m : text[x] = RBrace })

\* text[a..b] is a balanced brace span
BalancedSpan(text, a, b) ==
    /\ a < b /\ text[a] = LBrace /\ text[b] = RBrace
    /\ BraceDepth(text, a, b) = 0
    /\ \A m \in a..(b - 1) : BraceDepth(text, a, m) > 0

\* the first opening brace of the text
FirstOpen(text) ==
    CHOOSE a \in 1..Len(text) : text[a] = LBrace /\ \A y \in 1..(a - 1) : text[y] # LBrace

\* the first opening brace exists and is closed
HasBalancedSpan(text) ==
    /\ \E a \in 1..Len(text) : text[a] = LBrace
    /\ \E b \in 1..Len(text) : BalancedSpan(text, FirstOpen(text), b)

\* from the first opening brace to the brace that closes it
FirstBalancedSpan(text) ==
    LET a == FirstOpen(text)
        b == CHOOSE y \in 1..Len(text) : BalancedSpan(text, a, y)
    IN  SubSeq(text, a, b)

\* the span is a JSON object of name/label members: pairs separated by commas
WellFormedObject(span) ==
    LET inner == SubSeq(span, 2, Len(span) - 1)
    IN  \/ inner = <<>>
        \/ /\ Len(inner) % 2 = 1
           /\ \A k \in 1..Len(inner) :
                IF k % 2 = 1 THEN inner[k].t = "pair" ELSE inner[k] = Comma

\* the mapping the object denotes (a repeated name keeps its last label)
MappingOf(span) ==
    LET at == { k \in 1..Len(span) : span[k].t = "pair" }
        names == { span[k].k : k \in at }
    IN  [n \in names |->
            span[CHOOSE k \in at : span[k].k = n /\ \A m \in at : span[m].k = n => m <= k].v]

\* C10: when the first balanced brace span of the response text is a
\* well-formed JSON object, the call succeeds and returns that object's
\* mapping, whatever surrounds or follows the span.
C10_FirstBalancedSpanExtracted ==
    (pc = "analyze_done" /\ ai_response.kind = "http_200"
       /\ HasBalancedSpan(ai_response.content)
       /\ WellFormedObject(FirstBalancedSpan(ai_response.content))) =>
        /\ parsed.success
        /\ parsed.flags = MappingOf(FirstBalancedSpan(ai_response.content))

(***************************************************************************)
(* enrich_with_deepseek                                                    *)
(*                                                                         *)
(* disk.merged holds the records of data/raw/merged_plant_data.json,       *)
(* reduced to the columns the function reads; the others pass through.     *)
(***************************************************************************)
batch_size == 25

Min(a, b) == IF a < b THEN a ELSE b

\* df.apply(flag_basic_capacity_factor, axis=1) into the flag column
apply_basic_flags(frame) ==
    [k \in 1..Len(frame) |->
        [plantName |-> frame[k].plantName,
         fuelTypeDescription |-> frame[k].fuelTypeDescription,
         capacityFactorPercent |-> frame[k].capacityFactorPercent,
         totalCapacityMW |-> frame[k].totalCapacityMW,
         state |-> frame[k].state,
         capacityFactorFlag |-> flag_basic_capacity_factor(frame[k])]]

\* the plants that have a capacity factor and a fuel description
RECURSIVE prepare_analysis_data(_)
prepare_analysis_data(frame) ==
    IF frame = <<>> THEN <<>>
    ELSE LET r == frame[1]
             has_capacity_factor == notna(r.capacityFactorPercent)
             has_fuel_type == r.fuelTypeDescription # NoneStr
         IN  (IF has_capacity_factor /\ has_fuel_type
              THEN << [plantName |-> r.plantName,
                       fuelType |-> r.fuelTypeDescription,
                       capacityFactor |-> r.capacityFactorPercent,
                       capacity |-> r.totalCapacityMW,
                       state |-> r.state] >>
              ELSE <<>>)
             \o prepare_analysis_data(Tail(frame))

\* the else branch of the batch loop: the basic flag of every plant of the
\* batch is stored under its name
RECURSIVE store_basic_flags(_, _)
store_basic_flags(flagged, batch) ==
    IF batch = <<>> THEN flagged
    ELSE LET plant == batch[1]
             basic_flag == flag_basic_capacity_factor(
                              [capacityFactorPercent |-> plant.capacityFactor,
                               fuelTypeDescription |-> plant.fuelType])
         IN  store_basic_flags(
                 dict_update(flagged, [n \in {plant.plantName} |-> basic_flag]),
                 Tail(batch))

\* the update loop: every row whose name is a key gets "AI_" + the stored flag
update_flags(frame, flagged) ==
    [k \in 1..Len(frame) |->
        IF frame[k].plantName \in DOMAIN flagged
        THEN [frame[k] EXCEPT !.capacityFactorFlag = "AI_" \o flagged[frame[k].plantName]]
        ELSE frame[k]]

(***************************************************************************)
(* enrich_with_deepseek applied to a merged file                           *)
(***************************************************************************)
\* largest number of freely chosen records in the merged file
MaxHead == 2

\* number of further records that fill up batches
MaxPad == 24

PlantKinds ==
    { [plantName |-> n, fuelTypeDescription |-> k.fuel,
       capacityFactorPercent |-> k.cf,
       totalCapacityMW |-> IF isna(k.cf) THEN NaN ELSE Num(100),
       state |-> "TX"] :
         n \in {"Plant A", "Plant B"},
         k \in { [fuel |-> <<"N","u","c","l","e","a","r">>, cf |-> Num(50)],
                 [fuel |-> <<"N","a","t","u","r","a","l"," ","G","a","s">>, cf |-> Num(50)],
                 [fuel |-> <<"N","u","c","l","e","a","r">>, cf |-> NaN] } }

PadPlants(n) ==
    [k \in 1..n |->
        [plantName |-> "Unit " \o ToString(k),
         fuelTypeDescription |-> <<"N","a","t","u","r","a","l"," ","G","a","s">>,
         capacityFactorPercent |-> Num(50),
         totalCapacityMW |-> Num(100),
         state |-> "TX"]]

MergedFiles ==
    { SubSeq(h, 1, Min(c, Len(h))) \o PadPlants(p) \o SubSeq(h, Min(c, Len(h)) + 1, Len(h)) :
        h \in SeqsUpTo(PlantKinds, MaxHead), c \in 0..MaxHead, p \in {0, MaxPad} }
      \ { <<>> }

ResponseOutcomes ==
    { [kind |-> "exception", content |-> <<>>],
      [kind |-> "http_500", content |-> <<>>],
      [kind |-> "http_200", content |->
          <<LBrace, Pair("Plant A", "High_Nuclear"), Comma, Pair("Unit 1", "Normal"), RBrace>>],
      [kind |-> "http_200", content |->
          <<Noise, LBrace, Pair("Plant B", "Low_Nuclear"), RBrace, Noise>>],
      [kind |-> "http_200", content |-> <<LBrace, RBrace>>],
      [kind |-> "http_200", content |->
          <<LBrace, Pair("Plant A", "Normal"), RBrace, Noise, LBrace, Noise, RBrace>>] }

InitEnrich ==
    /\ pc = "enrich_call"
    /\ run = 1
    /\ \E f \in MergedFiles :
         disk = [NoDisk EXCEPT !.merged = [run |-> 1, records |-> f]]
    /\ merged_df = <<>>
    /\ df = <<>> /\ analysis_data = <<>> /\ flagged_plants = EmptyDict
    /\ i = 0 /\ batch_log = <<>> /\ calls = <<>>
    /\ ai_response = NoResponse /\ parsed = NoParse
    /\ raw_records = <<>> /\ raw_df = <<>> /\ cleaned_df = <<>> /\ aggregated_df = <<>>
    /\ api_df = <<>> /\ csv_df = NoCsv
    /\ row = NoRow /\ flag = "" /\ fetch = ""

\* DS_API_KEY is not set, or the merged file cannot be read: nothing is done
EnrichAbort ==
    /\ pc = "enrich_call"
    /\ pc' = "enrich_returned"
    /\ UNCHANGED <<row, flag, raw_records, raw_df, cleaned_df, aggregated_df,
                   api_df, csv_df, merged_df, ai_response, parsed, df,
                   analysis_data, flagged_plants, i, batch_log,
                   calls, run, fetch, disk>>

\* load data/raw/merged_plant_data.json as it is on disk, apply the basic
\* flags, prepare the plants for the AI pass
EnrichLoad ==
    /\ pc = "enrich_call"
    /\ disk.merged.run > 0
    /\ df' = apply_basic_flags(disk.merged.records)
    /\ analysis_data' = prepare_analysis_data(disk.merged.records)
    /\ flagged_plants' = EmptyDict
    /\ i' = 0
    /\ batch_log' = <<>>
    /\ calls' = <<>>
    /\ pc' = "enrich_loop"
    /\ UNCHANGED <<row, flag, raw_records, raw_df, cleaned_df, aggregated_df,
                   api_df, csv_df, merged_df, ai_response, parsed,
                   run, fetch, disk>>

\* variant: the loop is left at the first failed batch
ProcessBatchStopOnFailure ==
    /\ pc = "enrich_loop"
    /\ i < Len(analysis_data)
    /\ \E response \in ResponseOutcomes :
         LET batch == SubSeq(analysis_data, i + 1, Min(i + batch_size, Len(analysis_data)))
             result == analyze_batch_with_deepseek(response)
             ok == result.success /\ result.flags # EmptyDict
         IN  /\ ai_response' = response
             /\ parsed' = result
             /\ flagged_plants' = IF ok THEN dict_update(flagged_plants, result.flags)
                                  ELSE store_basic_flags(flagged_plants, batch)
             /\ batch_log' = Append(batch_log, ok)
             /\ calls' = Append(calls, [batch |-> batch, flags |-> result.flags, ok |-> ok])
             /\ i' = IF ok THEN i + batch_size ELSE Len(analysis_data)
    /\ UNCHANGED <<pc, row, flag, raw_records, raw_df, cleaned_df, aggregated_df,
                   api_df, csv_df, merged_df, df, analysis_data, run, fetch, disk>>

\* one iteration of the batch loop; the remote service answers with any outcome
ProcessBatch ==
    /\ pc = "enrich_loop"
    /\ i < Len(analysis_data)
    /\ \E response \in ResponseOutcomes :
         LET batch == SubSeq(analysis_data, i + 1, Min(i + batch_size, Len(analysis_data)))
             result == analyze_batch_with_deepseek(response)
             ok == result.success /\ result.flags # EmptyDict
         IN  /\ ai_response' = response
             /\ parsed' = result
             /\ flagged_plants' = IF ok THEN dict_update(flagged_plants, result.flags)
                                  ELSE store_basic_flags(flagged_plants, batch)
             /\ batch_log' = Append(batch_log, ok)
             /\ calls' = Append(calls, [batch |-> batch, flags |-> result.flags, ok |-> ok])
    /\ i' = i + batch_size
    /\ UNCHANGED <<pc, row, flag, raw_records, raw_df, cleaned_df, aggregated_df,
                   api_df, csv_df, merged_df, df, analysis_data, run, fetch, disk>>

\* after the last batch: write the stored flags into the frame and save it to
\* data/enriched/merged_plant_data_enriched.json
EnrichUpdate ==
    /\ pc = "enrich_loop"
    /\ i >= Len(analysis_data)
    /\ df' = update_flags(df, flagged_plants)
    /\ disk' = [disk EXCEPT !.enriched = [run |-> run, records |-> df']]
    /\ pc' = "enrich_done"
    /\ UNCHANGED <<row, flag, raw_records, raw_df, cleaned_df, aggregated_df,
                   api_df, csv_df, merged_df, ai_response, parsed,
                   analysis_data, flagged_plants, i, batch_log, calls, run, fetch>>

NextEnrich == EnrichAbort \/ EnrichLoad \/ ProcessBatch \/ EnrichUpdate

SpecEnrich == InitEnrich /\ [][NextEnrich]_vars

\* the rows of df that were prepared for the AI pass, in record order
EligibleRows ==
    { k \in 1..Len(df) :
        notna(df[k].capacityFactorPercent) /\ df[k].fuelTypeDescription # NoneStr }

\* the row of df behind the j-th entry of analysis_data
RowOfEntry(j) ==
    CHOOSE k \in EligibleRows : Cardinality({ m \in EligibleRows : m <= k }) = j

\* the entries of analysis_data submitted as batch b
EntriesOfBatch(b) ==
    { j \in 1..Len(analysis_data) : (j - 1) \div batch_size = b - 1 }

\* C1: when the pass is over, every plant of a batch whose remote call failed
\* (or returned nothing) still carries the flag flag_basic_capacity_factor
\* computes for it, so none of them carries a flag that starts with AI_.
C1_FailedBatchKeepsBasicFlag ==
    pc = "enrich_done" =>
        \A b \in 1..Len(batch_log) :
            ~batch_log[b] =>
                \A j \in EntriesOfBatch(b) :
                    df[RowOfEntry(j)].capacityFactorFlag
                        = flag_basic_capacity_factor(df[RowOfEntry(j)])

FuelCategories == {"Nuclear", "Fossil", "Hydro", "Wind", "Solar"}

FuelTypeNames ==
    {"Nuclear", "Natural_Gas", "Gas", "Coal", "Fossil", "Hydro", "Wind", "Solar"}

AILabels ==
    {"Normal", "Mixed_Fuel_Unusual"}
      \cup { p \o f : p \in {"High_", "Low_", "Extreme_"}, f \in FuelTypeNames }

LabelSpace ==
    {"No_Data", "Normal"}
      \cup { "Unusual_" \o c : c \in FuelCategories }
      \cup { "AI_" \o l : l \in AILabels }

\* C2: when the pass is over, the flag of every record is one of No_Data,
\* Normal, Unusual_<FuelCategory>, or AI_ followed by Normal, High_<FuelType>,
\* Low_<FuelType>, Extreme_<FuelType> or Mixed_Fuel_Unusual.
C2_FlagInLabelSpace ==
    pc = "enrich_done" =>
        \A k \in 1..Len(df) : df[k].capacityFactorFlag \in LabelSpace

\* the entry prepare_analysis_data makes of row k of df
EntryOfRow(k) ==
    [plantName |-> df[k].plantName,
     fuelType |-> df[k].fuelTypeDescription,
     capacityFactor |-> df[k].capacityFactorPercent,
     capacity |-> df[k].totalCapacityMW,
     state |-> df[k].state]

\* ceil(n / size)
CeilDiv(n, size) == (n + size - 1) \div size

\* C12: when the pass is over, whatever the outcomes of the calls were, the
\* eligible rows were submitted in record order in consecutive batches of at
\* most batch_size plants: there were exactly ceil(n / batch_size) calls, the
\* b-th call carried the eligible rows (b-1)*batch_size + 1 .. b*batch_size
\* (fewer in the last), so every eligible row was in exactly one batch.
C12_BatchesPartitionEligible ==
    pc = "enrich_done" =>
        LET n == Cardinality(EligibleRows)
        IN  /\ Len(calls) = CeilDiv(n, batch_size)
            /\ \A b \in 1..Len(calls) :
                 /\ Len(calls[b].batch) = Min(batch_size, n - (b - 1) * batch_size)
                 /\ \A j \in 1..Len(calls[b].batch) :
                      calls[b].batch[j]
                          = EntryOfRow(RowOfEntry((b - 1) * batch_size + j))

\* two batches were needed, the first call failed and the second succeeded
C12_Witness ==
    /\ pc = "enrich_done"
    /\ Len(calls) = 2
    /\ ~calls[1].ok
    /\ calls[2].ok
    /\ Cardinality(EligibleRows) > batch_size

\* the batch in which eligible row k of df was submitted
BatchOfRow(k) ==
    (Cardinality({ m \in EligibleRows : m <= k }) - 1) \div batch_size + 1

\* the flags the outcome of its own batch can give row k: the label the
\* response has for its name, or, after a failed call, the stored basic flag
\* of a member of the batch of that name
OwnBatchFlags(k) ==
    LET call == calls[BatchOfRow(k)]
        name == df[k].plantName
    IN  IF call.ok
        THEN IF name \in DOMAIN call.flags THEN {"AI_" \o call.flags[name]} ELSE {}
        ELSE { "AI_" \o flag_basic_capacity_factor(
                            [capacityFactorPercent |-> call.batch[j].capacityFactor,
                             fuelTypeDescription |-> call.batch[j].fuelType]) :
                 j \in { m \in 1..Len(call.batch) : call.batch[m].plantName = name } }

\* C13: when the pass is over, a row that was never submitted still has its
\* basic flag (No_Data when the capacity factor is absent), and the flag of a
\* submitted row is its basic flag or one that the outcome of its own batch
\* gives it; no response of another batch sets it.
C13_OnlyOwnBatchSetsFlag ==
    pc = "enrich_done" =>
        \A k \in 1..Len(df) :
            \/ df[k].capacityFactorFlag = flag_basic_capacity_factor(df[k])
            \/ /\ k \in EligibleRows
               /\ df[k].capacityFactorFlag \in OwnBatchFlags(k)

(***************************************************************************)
(* main: fetch, save, clean, aggregate, merge, filter, save, enrich        *)
(* Runs of main follow one another; the files under data/ outlive a run,   *)
(* the frames in memory do not.                                            *)
(***************************************************************************)
\* df is not None and not df.empty: to_json(filename); otherwise nothing
save_data(d, filename, frame, r) ==
    IF frame # <<>> THEN [d EXCEPT ![filename] = [run |-> r, records |-> frame]]
    ELSE d

\* the columns of the merged dump that enrich_with_deepseek reads; a column
\* the frame does not have is read as missing (row.get)
file_records(frame) ==
    [k \in 1..Len(frame) |->
        [plantName |-> frame[k].plantName,
         fuelTypeDescription |-> frame[k].fuelTypeDescription,
         capacityFactorPercent |->
             IF "capacityFactorPercent" \in DOMAIN frame[k]
             THEN frame[k].capacityFactorPercent ELSE NaN,
         totalCapacityMW |->
             IF "totalCapacityMW" \in DOMAIN frame[k]
             THEN frame[k].totalCapacityMW ELSE NaN,
         state |-> frame[k].state]]

state_mapping(description) ==
    CASE description = "Texas" -> "TX"
      [] description = "California" -> "CA"
      [] OTHER -> NULL

apply_geographic_filter(frame, filter_type, filter_list) ==
    IF filter_type = "all" THEN frame
    ELSE SelectSeq(frame, LAMBDA r : state_mapping(r.stateDescription) \in filter_list)

\* number of runs of main that are followed
MaxRuns == 2

MainRawRow(code, generation) ==
    [period |-> "2025-02", plantCode |-> code, plantName |-> PlantNameOf(code),
     fuel2002 |-> "NG", fuelTypeDescription |-> <<"N","a","t","u","r","a","l"," ","G","a","s">>,
     state |-> "TX", stateDescription |-> "Texas", primeMover |-> "CT",
     gross_generation |-> NumCell(generation), gross_generation_units |-> "megawatthours"]

\* how the request of get_eia_data can end
FetchFailures == {"no_api_key", "http_error", "exception"}

FetchOutcomes ==
    [kind : FetchFailures, records : {<<>>}]
      \cup [kind : {"ok"},
            records : { <<>>,
                        <<MainRawRow("1", 100)>>,
                        <<MainRawRow("1", 0)>>,
                        <<MainRawRow("1", 100), MainRawRow("2", 100)>> }]

\* data/raw/Power_Plants.csv: missing, or a table that knows plant 1
MainCsvTables ==
    { NoCsv }
      \cup { [loaded |-> TRUE, rows |-> <<r>>] :
               r \in { x \in RefRows : /\ x.Plant_Code = 1
                                       /\ x.Plant_Name = "Reference Plant"
                                       /\ x.Total_MW = NumCell(100) } }

\* what get_user_geographic_filter returns, or input() raising EOFError
FilterInputs ==
    { [type |-> "all", list |-> {}],
      [type |-> "states", list |-> {"TX"}],
      [type |-> "states", list |-> {"CA"}],
      [type |-> "eof", list |-> {}] }

InitMain ==
    /\ pc = "main_call"
    /\ run = 1
    /\ fetch = ""
    /\ disk = NoDisk
    /\ raw_records = <<>> /\ raw_df = <<>> /\ cleaned_df = <<>> /\ aggregated_df = <<>>
    /\ api_df = <<>> /\ csv_df = NoCsv /\ merged_df = <<>>
    /\ df = <<>> /\ analysis_data = <<>> /\ flagged_plants = EmptyDict
    /\ i = 0 /\ batch_log = <<>> /\ calls = <<>>
    /\ ai_response = NoResponse /\ parsed = NoParse
    /\ row = NoRow /\ flag = ""

\* df = get_eia_data(): None on a missing key, a status other than 200 or
\* any exception, else the frame of the records of the response
MainFetch ==
    /\ pc = "main_call"
    /\ \E outcome \in FetchOutcomes :
         /\ fetch' = outcome.kind
         /\ raw_records' = outcome.records
         /\ raw_df' = outcome.records
    /\ pc' = "main_fetched"
    /\ UNCHANGED <<row, flag, cleaned_df, aggregated_df, api_df, csv_df, merged_df,
                   ai_response, parsed, df, analysis_data, flagged_plants,
                   i, batch_log, calls, run, disk>>

\* the frame is None or empty: main returns
MainHalt ==
    /\ pc = "main_fetched"
    /\ ~(fetch = "ok" /\ raw_df # <<>>)
    /\ pc' = "main_returned"
    /\ UNCHANGED <<row, flag, raw_records, raw_df, cleaned_df, aggregated_df,
                   api_df, csv_df, merged_df, ai_response, parsed, df,
                   analysis_data, flagged_plants, i, batch_log, calls, run,
                   fetch, disk>>

\* variant: the stages run whatever get_eia_data returned
MainProcessUnguarded ==
    /\ pc = "main_fetched"
    /\ \E csv \in MainCsvTables :
         /\ csv_df' = csv
         /\ merged_df' = merge_with_csv(aggregate_plants(clean_data(raw_df)), csv)
    /\ disk' = save_data(disk, "raw", raw_df, run)
    /\ raw_df' = [k \in 1..Len(raw_df) |->
                     [raw_df[k] EXCEPT !.gross_generation = to_numeric(@)]]
    /\ cleaned_df' = clean_data(raw_df)
    /\ aggregated_df' = aggregate_plants(cleaned_df')
    /\ api_df' = aggregated_df'
    /\ pc' = "main_merged"
    /\ UNCHANGED <<row, flag, raw_records, ai_response, parsed, df, analysis_data,
                   flagged_plants, i, batch_log, calls, run, fetch>>

\* the frame has rows: save the raw dump, clean, aggregate, merge
MainProcess ==
    /\ pc = "main_fetched"
    /\ fetch = "ok" /\ raw_df # <<>>
    /\ \E csv \in MainCsvTables :
         /\ csv_df' = csv
         /\ merged_df' = merge_with_csv(aggregate_plants(clean_data(raw_df)), csv)
    /\ disk' = save_data(disk, "raw", raw_df, run)
    /\ raw_df' = [k \in 1..Len(raw_df) |->
                     [raw_df[k] EXCEPT !.gross_generation = to_numeric(@)]]
    /\ cleaned_df' = clean_data(raw_df)
    /\ aggregated_df' = aggregate_plants(cleaned_df')
    /\ api_df' = aggregated_df'
    /\ pc' = "main_merged"
    /\ UNCHANGED <<row, flag, raw_records, ai_response, parsed, df, analysis_data,
                   flagged_plants, i, batch_log, calls, run, fetch>>

\* ask for the geographic filter, apply it, save the merged dump and call
\* enrich_with_deepseek; EOFError of input() is not caught
MainFilterSave ==
    /\ pc = "main_merged"
    /\ \E choice \in FilterInputs :
         IF choice.type = "eof"
         THEN /\ pc' = "main_raised"
              /\ UNCHANGED <<merged_df, disk>>
         ELSE /\ merged_df' = apply_geographic_filter(merged_df, choice.type, choice.list)
              /\ disk' = save_data(disk, "merged", file_records(merged_df'), run)
              /\ pc' = "enrich_call"
    /\ UNCHANGED <<row, flag, raw_records, raw_df, cleaned_df, aggregated_df,
                   api_df, csv_df, ai_response, parsed, df, analysis_data,
                   flagged_plants, i, batch_log, calls, run, fetch>>

\* enrich_with_deepseek has returned: main returns
MainReturn ==
    /\ pc \in {"enrich_returned", "enrich_done"}
    /\ pc' = "main_returned"
    /\ UNCHANGED <<row, flag, raw_records, raw_df, cleaned_df, aggregated_df,
                   api_df, csv_df, merged_df, ai_response, parsed, df,
                   analysis_data, flagged_plants, i, batch_log, calls, run,
                   fetch, disk>>

\* the program is started again: the files are as the earlier runs left them
MainRerun ==
    /\ pc \in {"main_returned", "main_raised"}
    /\ run < MaxRuns
    /\ run' = run + 1
    /\ pc' = "main_call"
    /\ fetch' = ""
    /\ raw_records' = <<>> /\ raw_df' = <<>> /\ cleaned_df' = <<>>
    /\ aggregated_df' = <<>> /\ api_df' = <<>> /\ csv_df' = NoCsv /\ merged_df' = <<>>
    /\ df' = <<>> /\ analysis_data' = <<>> /\ flagged_plants' = EmptyDict
    /\ i' = 0 /\ batch_log' = <<>> /\ calls' = <<>>
    /\ ai_response' = NoResponse /\ parsed' = NoParse
    /\ UNCHANGED <<row, flag, disk>>

NextMain ==
    \/ MainFetch \/ MainHalt \/ MainProcess \/ MainFilterSave
    \/ EnrichAbort \/ EnrichLoad \/ ProcessBatch \/ EnrichUpdate
    \/ MainReturn \/ MainRerun

SpecMain == InitMain /\ [][NextMain]_vars

\* C11: in a run whose fetch failed (missing key, status other than 200,
\* exception), main is only ever between the fetch and its normal return: no
\* stage is started, no exception escapes, and none of the three dumps is
\* written by this run.
C11_FetchFailureHalts ==
    fetch \in FetchFailures =>
        /\ pc \in {"main_fetched", "main_returned"}
        /\ disk.raw.run # run /\ disk.merged.run # run /\ disk.enriched.run # run
        /\ cleaned_df = <<>> /\ aggregated_df = <<>> /\ merged_df = <<>>
        /\ df = <<>> /\ calls = <<>>

\* the second run returned after a failed fetch, the dumps are those of the
\* first run
C11_Witness ==
    /\ fetch \in FetchFailures
    /\ pc = "main_returned"
    /\ run = 2
    /\ disk.raw.run = 1 /\ disk.merged.run = 1 /\ disk.enriched.run = 1

\* C14: whenever enrich_with_deepseek has loaded the merged dump, the dump
\* was written by this run of main and holds this run's merged records.
C14_EnrichReadsThisRunsMerge ==
    pc \in {"enrich_loop", "enrich_done"} =>
        /\ disk.merged.run = run
        /\ disk.merged.records = file_records(merged_df)

====
